---- MODULE Spec2Model ----
(***************************************************************************)
(* Model of src/installer.ts: DotnetVersionResolver, InstallDir and        *)
(* DotnetCoreInstaller.                                                    *)
(*                                                                         *)
(* Strings that the code parses (version specifiers, channel versions,     *)
(* sdk directory names) are sequences of one-character strings, so that    *)
(* split, trim, the /^\d+$/ test, the template `${major}.${minor}` and     *)
(* the semver predicates are computed and not assumed.                     *)
(***************************************************************************)
EXTENDS Integers, Sequences, FiniteSets, TLC

\* ------------------------------------------------------------------ bounds

\* Largest number of dot-separated parts of a generated version input.
MaxParts == 3
\* Largest number of entries of a fetched releases-index.
MaxIndexLen == 2
\* Number of DotnetCoreInstaller objects alive in the multi-installer runs.
MaxInstallers == 2

\* ----------------------------------------------------------------- strings

Digits == {"0", "5", "6"}

DigitVal(c) == CASE c = "0" -> 0 [] c = "5" -> 5 [] c = "6" -> 6 [] OTHER -> 11

AllIn(s, S) == \A k \in 1..Len(s) : s[k] \in S

RECURSIVE NumOf(_)
\* Decimal value of a string of digits.
NumOf(s) == IF s = <<>> THEN 0
            ELSE 10 * NumOf(SubSeq(s, 1, Len(s) - 1)) + DigitVal(s[Len(s)])

RECURSIVE HexOf(_)
HexOf(s) == IF s = <<>> THEN 0
            ELSE 16 * HexOf(SubSeq(s, 1, Len(s) - 1)) + DigitVal(s[Len(s)])

RECURSIVE TrimLeft(_)
TrimLeft(s) == IF s # <<>> /\ Head(s) = " " THEN TrimLeft(Tail(s)) ELSE s

RECURSIVE TrimRight(_)
TrimRight(s) == IF s # <<>> /\ s[Len(s)] = " "
                THEN TrimRight(SubSeq(s, 1, Len(s) - 1)) ELSE s

\* String.prototype.trim
Trim(s) == TrimRight(TrimLeft(s))

RECURSIVE SplitFrom(_, _)
\* The parts of s with cur the part read so far.
SplitFrom(s, cur) ==
    IF s = <<>> THEN <<cur>>
    ELSE IF Head(s) = "." THEN <<cur>> \o SplitFrom(Tail(s), <<>>)
    ELSE SplitFrom(Tail(s), Append(cur, Head(s)))

\* String.prototype.split('.'): the empty string splits into one empty part.
Split(s) == SplitFrom(s, <<>>)

RECURSIVE Join(_)
\* Array.prototype.join('.'); an undefined element joins as the empty string.
Join(parts) == IF parts = <<>> THEN <<>>
               ELSE IF Len(parts) = 1 THEN parts[1]
               ELSE parts[1] \o <<".">> \o Join(Tail(parts))

\* A destructured or indexed array element; JavaScript's undefined is Undef.
Undef == <<"undefined">>
At(parts, k) == IF k <= Len(parts) THEN parts[k] ELSE Undef
Shown(part) == IF part = Undef THEN <<>> ELSE part

RECURSIVE StripQuotes(_)
\* String.prototype.replace(/'/g, '')
StripQuotes(s) == IF s = <<>> THEN <<>>
                  ELSE IF Head(s) = "'" THEN StripQuotes(Tail(s))
                  ELSE <<Head(s)>> \o StripQuotes(Tail(s))

\* Unary plus on a string: -1 stands for NaN, which compares false with >=.
NaN == 0 - 1
ToNumber(s) ==
    IF s = Undef THEN NaN
    ELSE LET t == Trim(s) IN
         IF t = <<>> THEN 0
         ELSE IF AllIn(t, Digits) THEN NumOf(t)
         ELSE IF Len(t) >= 3 /\ t[1] = "0" /\ t[2] = "x"
                 /\ AllIn(SubSeq(t, 3, Len(t)), Digits \cup {"b"})
              THEN HexOf(SubSeq(t, 3, Len(t)))
         ELSE NaN

\* ------------------------------------------------------------------ semver

\* semver's NUMERICIDENTIFIER: 0|[1-9]\d*
NumericIdentifier(t) ==
    /\ t # <<>>
    /\ AllIn(t, Digits)
    /\ (Head(t) = "0" => Len(t) = 1)

\* semver's XRANGEIDENTIFIER: NUMERICIDENTIFIER|x|X|\*
XRangeIdentifier(t) ==
    NumericIdentifier(t) \/ t \in {<<"x">>, <<"X">>, <<"*">>}

\* semver.valid on a string without operators, prefixes, prerelease or build
\* tags: exactly three numeric identifiers.
SemverValid(s) ==
    LET parts == Split(Trim(s)) IN
    /\ Len(parts) = 3
    /\ \A k \in 1..3 : NumericIdentifier(parts[k])

\* semver.validRange on such a string: the empty range, or one to three
\* x-range identifiers.
SemverValidRange(s) ==
    LET t == Trim(s)
        parts == Split(t) IN
    \/ t = <<>>
    \/ /\ Len(parts) \in 1..3
       /\ \A k \in 1..Len(parts) : XRangeIdentifier(parts[k])

\* Range.test(name): name is a version and agrees with every non-wildcard
\* part of the range.
SemverSatisfies(name, range) ==
    LET v == Split(name)
        r == IF Trim(range) = <<>> THEN <<>> ELSE Split(Trim(range)) IN
    /\ SemverValid(name)
    /\ SemverValidRange(range)
    /\ \A k \in 1..Len(r) : NumericIdentifier(r[k]) => r[k] = v[k]

\* compare(a, b) > 0 on two versions.
SemverGt(a, b) ==
    LET x == Split(a)
        y == Split(b)
        n(p, k) == NumOf(p[k]) IN
    \/ n(x, 1) > n(y, 1)
    \/ n(x, 1) = n(y, 1) /\ n(x, 2) > n(y, 2)
    \/ n(x, 1) = n(y, 1) /\ n(x, 2) = n(y, 2) /\ n(x, 3) > n(y, 3)

\* JavaScript's null.
Null == <<"null">>

\* semver.maxSatisfying(versions, range, {includePrerelease: true}): the
\* greatest of the versions satisfying the range, null when there is none.
MaxSatisfying(versions, range) ==
    LET ok == {v \in versions : SemverSatisfies(v, range)} IN
    IF ok = {} THEN Null
    ELSE CHOOSE v \in ok : \A w \in ok : ~SemverGt(w, v)

\* ---------------------------------------------------- DotnetVersionResolver

DotNetCoreIndexUrl ==
    "https://dotnetcli.azureedge.net/dotnet/release-metadata/releases-index.json"

NoError == [kind |-> "none", version |-> <<>>, url |-> "",
            exitCode |-> 0, stderr |-> ""]

\* Error of line 30: the format error carrying the input.
InvalidFormat(input) == [NoError EXCEPT !.kind = "InvalidFormat",
                                        !.version = input]

\* Error of line 98: names versionParts.join('.') and the index URL.
ChannelNotFound(versionParts) ==
    [NoError EXCEPT !.kind = "ChannelNotFound",
                    !.version = Join(<<Shown(versionParts[1]),
                                       Shown(versionParts[2])>>),
                    !.url = DotNetCoreIndexUrl]

\* Errors raised inside the HTTP client or by .find on an undefined list.
FetchError(kind) == [NoError EXCEPT !.kind = kind, !.url = DotNetCoreIndexUrl]

\* Error of line 249.
InstallationFailed(code, err) ==
    [NoError EXCEPT !.kind = "InstallationFailed",
                    !.exitCode = code, !.stderr = err]

ReaddirError == [NoError EXCEPT !.kind = "ENOENT"]

\* The resolver's constructor: the trimmed input and an empty argument.
EmptyArgument == [type |-> "", value |-> <<>>, qualityFlag |-> FALSE]

\* A bug: a tag of zero taken as not numeric, /^[1-9]\d*$/.
isNumericTag_NonZero(versionTag) ==
    /\ versionTag # Undef
    /\ versionTag # <<>>
    /\ AllIn(versionTag, Digits)
    /\ Head(versionTag) # "0"

\* /^\d+$/.test(versionTag)
isNumericTag(versionTag) ==
    /\ versionTag # Undef
    /\ versionTag # <<>>
    /\ AllIn(versionTag, Digits)

\* +major >= 6 ? true : false
QualityFlag(major) == ToNumber(major) >= 6

\* const [major, minor] = this.inputVersion.split('.')
VersionParts(inputVersion) ==
    <<At(Split(inputVersion), 1), At(Split(inputVersion), 2)>>

\* A bug: the quality flag of line 55 computed for exact versions too.
ExactArgument_WithQuality(inputVersion) ==
    [type |-> "version", value |-> inputVersion,
     qualityFlag |-> QualityFlag(VersionParts(inputVersion)[1])]

\* Lines 35 and 36: the argument of an exact version; its quality flag
\* stays as the constructor set it.
ExactArgument(inputVersion) ==
    [EmptyArgument EXCEPT !.type = "version", !.value = inputVersion]

\* resolveVersionInput up to its first suspension: it throws, completes
\* locally, or awaits getLatestVersion.
resolveVersionInput(inputVersion) ==
    LET major == VersionParts(inputVersion)[1]
        minor == VersionParts(inputVersion)[2] IN
    IF ~SemverValidRange(inputVersion)
    THEN [step |-> "throw", error |-> InvalidFormat(inputVersion),
          arg |-> EmptyArgument]
    ELSE IF SemverValid(inputVersion)
    THEN [step |-> "done", error |-> NoError,
          arg |-> ExactArgument(inputVersion)]
    ELSE IF ~isNumericTag(major)
    THEN [step |-> "done", error |-> NoError,
          arg |-> [EmptyArgument EXCEPT !.qualityFlag = QualityFlag(major)]]
    ELSE IF isNumericTag(minor)
    THEN [step |-> "done", error |-> NoError,
          arg |-> [type |-> "channel",
                   value |-> major \o <<".">> \o minor,
                   qualityFlag |-> QualityFlag(major)]]
    ELSE [step |-> "fetch", error |-> NoError,
          arg |-> [EmptyArgument EXCEPT !.type = "channel"]]

\* A bug: the last matching entry, as findLast would give.
FindRelease_Last(releasesInfo, versionParts) ==
    LET hits == {k \in 1..Len(releasesInfo) :
                    At(Split(releasesInfo[k]), 1) = versionParts[1]} IN
    IF hits = {} THEN 0 ELSE CHOOSE k \in hits : \A j \in hits : k >= j

\* releasesInfo.find(info => info['channel-version'].split('.')[0] ===
\* versionParts[0]): the position of the first such entry, 0 when none.
FindRelease(releasesInfo, versionParts) ==
    LET hits == {k \in 1..Len(releasesInfo) :
                    At(Split(releasesInfo[k]), 1) = versionParts[1]} IN
    IF hits = {} THEN 0 ELSE CHOOSE k \in hits : \A j \in hits : k <= j

\* A bug: with no matching entry, the first entry of the index is returned.
getLatestVersion_Fallback(response, versionParts) ==
    IF response.status = "neterr"
    THEN [error |-> FetchError("NetworkError"), value |-> <<>>]
    ELSE IF response.status = "null"
    THEN [error |-> FetchError("TypeError"), value |-> <<>>]
    ELSE IF response.index = <<>>
    THEN [error |-> ChannelNotFound(versionParts), value |-> <<>>]
    ELSE [error |-> NoError, value |-> response.index[1]]

\* getLatestVersion after httpClient.getJson answered.
getLatestVersion(response, versionParts) ==
    IF response.status = "neterr"
    THEN [error |-> FetchError("NetworkError"), value |-> <<>>]
    ELSE IF response.status = "null"
    THEN [error |-> FetchError("TypeError"), value |-> <<>>]
    ELSE IF FindRelease(response.index, versionParts) = 0
    THEN [error |-> ChannelNotFound(versionParts), value |-> <<>>]
    ELSE [error |-> NoError,
          value |-> response.index[FindRelease(response.index, versionParts)]]

\* createDotNetVersion after resolveVersionInput: the type becomes the
\* platform's flag name, an empty type stays empty.
RenderType(arg, os) ==
    IF arg.type = "" THEN arg
    ELSE IF os = "windows"
    THEN [arg EXCEPT !.type = IF arg.type = "channel" THEN "-Channel"
                                                      ELSE "-Version"]
    ELSE [arg EXCEPT !.type = IF arg.type = "channel" THEN "--channel"
                                                      ELSE "--version"]

\* --------------------------------------------------------------- InstallDir

\* A directory path: a root, a separator and the major-version part. The
\* empty path stands for an unset (or empty, equally falsy) variable.
NoDir == [base |-> "", sep |-> "", major |-> <<>>]

\* InstallDir.base, by platform.
InstallDirBase(os) ==
    IF os = "windows" THEN [NoDir EXCEPT !.base = "PROGRAMFILES/dotnet"]
    ELSE IF os = "linux" THEN [NoDir EXCEPT !.base = "/usr/share/dotnet"]
    ELSE [NoDir EXCEPT !.base = "HOME/.dotnet"]

\* The value the InstallDir constructor writes to DOTNET_INSTALL_DIR:
\* `${base}\\${majorVersion}` or `${base}/${majorVersion}` with
\* majorVersion = version.split('.').at(0).
InstallDirValue(version, os) ==
    [InstallDirBase(os) EXCEPT !.sep = IF os = "windows" THEN "\\" ELSE "/",
                               !.major = Split(version)[1]]

\* get path(): DOTNET_INSTALL_DIR when truthy, else the platform's base.
InstallDirPath(envDir, os) ==
    IF envDir # NoDir THEN envDir ELSE InstallDirBase(os)

\* path.join(this.installDir.path.replace(/'/g, ''), 'sdk') without the
\* trailing sdk: the directory whose sdk subdirectory is listed.
ScannedDir(envDir, os) ==
    [InstallDirPath(envDir, os) EXCEPT !.major = StripQuotes(@)]

\* ------------------------------------------------------ DotnetCoreInstaller

\* An argument that is a fixed word and not a parsed string.
Word(w) == <<w>>

\* A bug: the quality pushed whatever the flag says.
setQuality_Always(dotnetVersion, scriptArguments, quality, os) ==
    [args |-> scriptArguments \o
              <<<<IF os = "windows" THEN "-Quality" ELSE "--quality">>,
                <<quality>>>>,
     warned |-> FALSE]

\* setQuality: the option and the quality are pushed when the flag is set;
\* otherwise a warning is written and the arguments are left alone.
setQuality(dotnetVersion, scriptArguments, quality, os) ==
    IF dotnetVersion.qualityFlag
    THEN [args |-> scriptArguments \o
                   <<Word(IF os = "windows" THEN "-Quality" ELSE "--quality"),
                     Word(quality)>>,
          warned |-> FALSE]
    ELSE [args |-> scriptArguments, warned |-> TRUE]

\* The version flag and its value, pushed when the type is not empty.
VersionArguments(dotnetVersion) ==
    IF dotnetVersion.type # "" THEN <<Word(dotnetVersion.type), dotnetVersion.value>>
    ELSE <<>>

\* if (this.quality) this.setQuality(...)
QualityStep(dotnetVersion, scriptArguments, quality, os) ==
    IF quality # "" THEN setQuality(dotnetVersion, scriptArguments, quality, os)
    ELSE [args |-> scriptArguments, warned |-> FALSE]

\* The proxy arguments of the Windows branch.
ProxyArguments(httpsProxy, noProxy) ==
    (IF httpsProxy THEN <<Word("-ProxyAddress https_proxy")>> ELSE <<>>) \o
    (IF noProxy THEN <<Word("-ProxyBypassList no_proxy")>> ELSE <<>>)

WindowsDefaultOptions ==
    <<Word("-NoLogo"), Word("-Sta"), Word("-NoProfile"),
      Word("-NonInteractive"), Word("-ExecutionPolicy"), Word("Unrestricted"),
      Word("-Command")>>

\* The argument list of installDotnet, lines 203 to 237.
ScriptArguments(dotnetVersion, quality, os, httpsProxy, noProxy) ==
    IF os = "windows"
    THEN LET q == QualityStep(dotnetVersion,
                      <<Word("&"), Word("install-dotnet.ps1"),
                        Word("-SkipNonVersionedFiles")>>
                      \o VersionArguments(dotnetVersion), quality, os) IN
         [args |-> WindowsDefaultOptions \o q.args
                   \o ProxyArguments(httpsProxy, noProxy),
          warned |-> q.warned]
    ELSE QualityStep(dotnetVersion,
                     <<Word("--skip-non-versioned-files")>>
                     \o VersionArguments(dotnetVersion), quality, os)

\* A bug: only exit code 1 taken as a failure.
ExitCodeThrows_OnlyOne(exitCode) == exitCode = 1

\* A bug: the exit code ignored.
ExitCodeThrows_Never(exitCode) == FALSE

\* if (exitCode) throw
ExitCodeThrows(exitCode) == exitCode # 0

\* ------------------------------------------------------------------- state

Installers == 1..MaxInstallers

VARIABLES
    platform,   \* IS_WINDOWS / IS_LINUX: "windows", "linux" or "mac"
    installDir, \* process.env['DOTNET_INSTALL_DIR']
    dotnetRoot, \* the exported DOTNET_ROOT
    inst        \* the DotnetCoreInstaller objects and their installDotnet calls

vars == <<platform, installDir, dotnetRoot, inst>>

\* An installer not yet constructed. Fields beyond version, quality and
\* dotnetVersion record what its installDotnet call did, for the properties:
\*   pc            where the call stands
\*   lookups       getJson calls issued
\*   response      what getJson answered
\*   args, warned  the script arguments and whether setQuality warned
\*   spawned       number of installer subprocesses started
\*   childDir      DOTNET_INSTALL_DIR in the subprocess's environment
\*   exitCode, stderr   what getExecOutput returned
\*   scanned       the directory whose sdk subdirectory was listed
\*   listing       what readdir returned
\*   result        the value installDotnet returned
\*   error         the error installDotnet threw
\*   steps         the steps of the run, in the order they started
\*   exported      what addToPath last exported
NoResponse == [status |-> "none", index |-> <<>>]

NewInstaller ==
    [pc |-> "new", version |-> <<>>, quality |-> "",
     dotnetVersion |-> EmptyArgument, lookups |-> 0, response |-> NoResponse,
     args |-> <<>>, warned |-> FALSE, spawned |-> 0, childDir |-> NoDir,
     exitCode |-> 0, stderr |-> "", scanned |-> NoDir, listing |-> {},
     result |-> <<>>, error |-> NoError, steps |-> <<>>, exported |-> NoDir]

Platforms == {"windows", "linux", "mac"}

\* A directory a workflow may have put in DOTNET_INSTALL_DIR beforehand.
CustomDir == [NoDir EXCEPT !.base = "/opt/custom"]

Init ==
    /\ platform \in Platforms
    /\ installDir \in {NoDir, CustomDir}
    /\ dotnetRoot = NoDir
    /\ inst = [i \in Installers |-> NewInstaller]

\* new DotnetCoreInstaller(version, quality): the fields are set and the
\* InstallDir constructor writes DOTNET_INSTALL_DIR.
Constructor(i, versions, qualities) ==
    /\ inst[i].pc = "new"
    /\ \E version \in versions, quality \in qualities :
        /\ installDir' = InstallDirValue(version, platform)
        /\ inst' = [inst EXCEPT ![i] =
                [@ EXCEPT !.pc = "constructed",
                          !.version = version,
                          !.quality = quality,
                          !.steps = Append(@, "select")]]
    /\ UNCHANGED <<platform, dotnetRoot>>

\* addToPath(): installDir.path is added to the search path and exported
\* as DOTNET_ROOT.
addToPath(i) ==
    /\ inst[i].pc # "new"
    /\ dotnetRoot' = InstallDirPath(installDir, platform)
    /\ inst' = [inst EXCEPT ![i].exported = InstallDirPath(installDir, platform)]
    /\ UNCHANGED <<platform, installDir>>

\* installDotnet() up to the first suspension of resolveVersionInput: the
\* resolver is built on the trimmed version and classifies it.
installDotnet(i) ==
    /\ inst[i].pc = "constructed"
    /\ LET r == resolveVersionInput(Trim(inst[i].version)) IN
       inst' = [inst EXCEPT ![i] =
            [@ EXCEPT !.pc = CASE r.step = "throw" -> "failed"
                              [] r.step = "done" -> "resolved"
                              [] OTHER -> "fetching",
                      !.dotnetVersion = r.arg,
                      !.error = r.error,
                      !.lookups = IF r.step = "fetch" THEN @ + 1 ELSE @,
                      !.steps = Append(@, "resolve")]]
    /\ UNCHANGED <<platform, installDir, dotnetRoot>>

\* httpClient.getJson answers: getLatestVersion finds the entry or throws,
\* and resolveVersionInput sets the value and the quality flag.
getLatestVersionReturns(i, responses) ==
    /\ inst[i].pc = "fetching"
    /\ \E response \in responses :
        LET parts == VersionParts(Trim(inst[i].version))
            r == getLatestVersion(response, parts) IN
        inst' = [inst EXCEPT ![i] =
            [@ EXCEPT !.response = response,
                      !.pc = IF r.error = NoError THEN "resolved" ELSE "failed",
                      !.error = r.error,
                      !.dotnetVersion =
                          IF r.error = NoError
                          THEN [@ EXCEPT !.value = r.value,
                                         !.qualityFlag = QualityFlag(parts[1])]
                          ELSE @]]
    /\ UNCHANGED <<platform, installDir, dotnetRoot>>

\* createDotNetVersion returns the rendered argument and installDotnet
\* builds the script arguments (and locates the script). https_proxy and
\* no_proxy are read on Windows only.
buildScriptArguments(i) ==
    /\ inst[i].pc = "resolved"
    /\ \E httpsProxy \in (IF platform = "windows" THEN BOOLEAN ELSE {FALSE}),
          noProxy \in (IF platform = "windows" THEN BOOLEAN ELSE {FALSE}) :
        LET dv == RenderType(inst[i].dotnetVersion, platform)
            a == ScriptArguments(dv, inst[i].quality, platform,
                                 httpsProxy, noProxy) IN
        inst' = [inst EXCEPT ![i] =
            [@ EXCEPT !.pc = "ready",
                      !.dotnetVersion = dv,
                      !.args = a.args,
                      !.warned = a.warned,
                      !.steps = Append(@, "build")]]
    /\ UNCHANGED <<platform, installDir, dotnetRoot>>

\* exec.getExecOutput starts the installer with process.env.
getExecOutput(i) ==
    /\ inst[i].pc = "ready"
    /\ inst' = [inst EXCEPT ![i] =
            [@ EXCEPT !.pc = "running",
                      !.spawned = @ + 1,
                      !.childDir = installDir,
                      !.steps = Append(@, "run")]]
    /\ UNCHANGED <<platform, installDir, dotnetRoot>>

\* The installer exits: a non-zero code throws, otherwise
\* outputDotnetVersion starts listing the sdk directory of installDir.path.
getExecOutputReturns(i, outputs) ==
    /\ inst[i].pc = "running"
    /\ \E o \in outputs :
        LET exitCode == o[1]
            stderr == o[2] IN
        inst' = [inst EXCEPT ![i] =
            IF ExitCodeThrows(exitCode)
            THEN [@ EXCEPT !.pc = "failed",
                           !.exitCode = exitCode,
                           !.stderr = stderr,
                           !.error = InstallationFailed(exitCode, stderr)]
            ELSE [@ EXCEPT !.pc = "scanning",
                           !.exitCode = exitCode,
                           !.stderr = stderr,
                           !.scanned = ScannedDir(installDir, platform),
                           !.steps = Append(@, "scan")]]
    /\ UNCHANGED <<platform, installDir, dotnetRoot>>

\* readdir answers with the names found: the greatest satisfying name (or
\* null) is returned.
outputDotnetVersion(i, names) ==
    /\ inst[i].pc = "scanning"
    /\ \E versionsOnRunner \in SUBSET names :
        inst' = [inst EXCEPT ![i] =
            [@ EXCEPT !.pc = "done",
                      !.listing = versionsOnRunner,
                      !.result = MaxSatisfying(versionsOnRunner,
                                               inst[i].dotnetVersion.value)]]
    /\ UNCHANGED <<platform, installDir, dotnetRoot>>

\* readdir throws: there is no sdk directory.
readdirThrows(i) ==
    /\ inst[i].pc = "scanning"
    /\ inst' = [inst EXCEPT ![i] =
            [@ EXCEPT !.pc = "failed", !.error = ReaddirError]]
    /\ UNCHANGED <<platform, installDir, dotnetRoot>>

\* ------------------------------------------------------------------ inputs

\* The parts version inputs are made of: numbers (one with a leading zero,
\* one of two digits), the wildcard, a word, and the empty part.
Tokens == {<<>>, <<"0">>, <<"5">>, <<"6">>, <<"6", "0">>, <<"0", "6">>,
           <<"x">>, <<"b">>}

PartLists == UNION {[1..n -> Tokens] : n \in 1..MaxParts}

\* The dotnet-version inputs: parts joined by dots, bare or within blanks.
Versions == {Join(p) : p \in PartLists}
            \cup {<<" ">> \o Join(p) \o <<" ">> : p \in [1..2 -> Tokens]}

\* The dotnet-quality inputs; the empty string is no quality.
Qualities == {"", "preview"}

\* The channel-version strings a releases-index may list.
ChannelVersions == {<<"5", ".", "0">>, <<"6", ".", "5">>, <<"6", ".", "0">>,
                    <<"6", "0", ".", "0">>}

\* What getJson may answer: a releases-index, a null result, or a failure
\* after the client's retries.
Responses ==
    {[status |-> "ok", index |-> x] :
        x \in UNION {[1..n -> ChannelVersions] : n \in 0..MaxIndexLen}}
    \cup {[status |-> "null", index |-> <<>>],
          [status |-> "neterr", index |-> <<>>]}

\* What the installer may exit with: its code and its stderr text.
ExecOutputs == {<<0, "warn">>, <<1, "">>, <<1, "boom">>, <<2, "boom">>}

\* The names readdir may find in the sdk directory.
SdkNames == {<<"6", ".", "0", ".", "5">>, <<"6", ".", "0", ".", "6", "0">>,
             <<"5", ".", "0", ".", "0">>}

\* ---------------------------------------------------------- specifications

\* One installer, every input.
Next ==
    \/ Constructor(1, Versions, Qualities)
    \/ addToPath(1)
    \/ installDotnet(1)
    \/ getLatestVersionReturns(1, Responses)
    \/ buildScriptArguments(1)
    \/ getExecOutput(1)
    \/ getExecOutputReturns(1, ExecOutputs)
    \/ outputDotnetVersion(1, SdkNames)
    \/ readdirThrows(1)

Spec == Init /\ [][Next]_vars

\* Several installers whose calls interleave at every suspension, on a few
\* inputs.
MultiVersions == {<<"6", ".", "0">>, <<"5">>, <<"b">>}

MultiResponses == {[status |-> "ok", index |-> <<<<"5", ".", "0">>>>],
                   [status |-> "ok", index |-> <<>>]}

MultiExecOutputs == {<<0, "warn">>, <<1, "boom">>}

MultiSdkNames == {<<"6", ".", "0", ".", "5">>}

NextMulti ==
    \E i \in Installers :
        \/ Constructor(i, MultiVersions, {"preview"})
        \/ addToPath(i)
        \/ installDotnet(i)
        \/ getLatestVersionReturns(i, MultiResponses)
        \/ buildScriptArguments(i)
        \/ getExecOutput(i)
        \/ getExecOutputReturns(i, MultiExecOutputs)
        \/ outputDotnetVersion(i, MultiSdkNames)
        \/ readdirThrows(i)

SpecMulti == Init /\ [][NextMulti]_vars

\* -------------------------------------------------------------- properties

HasStep(i, step) == \E k \in 1..Len(inst[i].steps) : inst[i].steps[k] = step

\* The parts of the trimmed version input of installer i.
InputParts(i) == Split(Trim(inst[i].version))

\* The flag names createDotNetVersion returns.
VersionFlag == IF platform = "windows" THEN "-Version" ELSE "--version"
ChannelFlag == IF platform = "windows" THEN "-Channel" ELSE "--channel"

\* The input of installer i is A.B.C with three numbers.
IsExact(i) ==
    /\ inst[i].pc # "new"
    /\ Len(InputParts(i)) = 3
    /\ \A k \in 1..3 : NumericIdentifier(InputParts(i)[k])

\* The input of installer i is A.B or A.B.x with numbers A and B.
IsMinorChannel(i) ==
    /\ inst[i].pc # "new"
    /\ \/ Len(InputParts(i)) = 2
       \/ Len(InputParts(i)) = 3 /\ InputParts(i)[3] = <<"x">>
    /\ NumericIdentifier(InputParts(i)[1])
    /\ NumericIdentifier(InputParts(i)[2])

\* The input of installer i is A or A.x with a number A.
IsBareMajor(i) ==
    /\ inst[i].pc # "new"
    /\ \/ Len(InputParts(i)) = 1
       \/ Len(InputParts(i)) = 2 /\ InputParts(i)[2] = <<"x">>
    /\ NumericIdentifier(InputParts(i)[1])

\* The positions of the index entries whose major component is that of the
\* input of installer i.
Matches(i) ==
    {k \in 1..Len(inst[i].response.index) :
        Split(inst[i].response.index[k])[1] = InputParts(i)[1]}

\* C1: an exact version A.B.C resolves, without a remote lookup, to the
\* version flag with the input as value and no quality support.
C1_ExactVersion ==
    \A i \in Installers :
        IsExact(i) =>
            /\ inst[i].lookups = 0
            /\ HasStep(i, "resolve") =>
                  /\ inst[i].error.kind \notin
                        {"InvalidFormat", "ChannelNotFound", "NetworkError",
                         "TypeError"}
                  /\ inst[i].dotnetVersion.value = Trim(inst[i].version)
                  /\ ~inst[i].dotnetVersion.qualityFlag
            /\ HasStep(i, "build") => inst[i].dotnetVersion.type = VersionFlag

C1_Witness ==
    \E i \in Installers :
        /\ IsExact(i)
        /\ HasStep(i, "build")
        /\ NumOf(InputParts(i)[1]) >= 6

\* C2: A.B and A.B.x with numbers A and B (zero included) resolve, without
\* a remote lookup, to the channel flag with value A.B, and quality is
\* supported exactly when A >= 6.
C2_MinorChannel ==
    \A i \in Installers :
        IsMinorChannel(i) =>
            /\ inst[i].lookups = 0
            /\ HasStep(i, "resolve") =>
                  /\ inst[i].error.kind \notin
                        {"InvalidFormat", "ChannelNotFound", "NetworkError",
                         "TypeError"}
                  /\ inst[i].dotnetVersion.value =
                        InputParts(i)[1] \o <<".">> \o InputParts(i)[2]
                  /\ inst[i].dotnetVersion.qualityFlag
                        = (NumOf(InputParts(i)[1]) >= 6)
            /\ HasStep(i, "build") => inst[i].dotnetVersion.type = ChannelFlag

C2_Witness ==
    \E i \in Installers :
        /\ IsMinorChannel(i)
        /\ HasStep(i, "build")
        /\ InputParts(i)[2] = <<"0">>
        /\ inst[i].dotnetVersion.qualityFlag

\* C3: a bare major A or A.x issues exactly one remote lookup, and when the
\* index lists the major the result is the channel flag with the
\* channel-version of the first such entry.
C3_BareMajor ==
    \A i \in Installers :
        (IsBareMajor(i) /\ HasStep(i, "resolve")) =>
            /\ inst[i].lookups = 1
            /\ (inst[i].response.status = "ok" /\ Matches(i) # {}) =>
                  /\ inst[i].error.kind \notin
                        {"InvalidFormat", "ChannelNotFound", "NetworkError",
                         "TypeError"}
                  /\ \E k \in Matches(i) :
                        /\ \A j \in Matches(i) : k <= j
                        /\ inst[i].dotnetVersion.value
                              = inst[i].response.index[k]
                  /\ HasStep(i, "build") =>
                        inst[i].dotnetVersion.type = ChannelFlag

C3_Witness ==
    \E i \in Installers :
        /\ IsBareMajor(i)
        /\ HasStep(i, "build")
        /\ Cardinality(Matches(i)) = 2
        /\ inst[i].response.index[1] # inst[i].response.index[2]

\* C4: a bare major the fetched index does not list fails with
\* ChannelNotFound naming the major and the index URL; no directive is
\* returned and no installer is started.
C4_ChannelNotFound ==
    \A i \in Installers :
        (IsBareMajor(i) /\ inst[i].response.status = "ok"
                        /\ Matches(i) = {}) =>
            /\ inst[i].pc = "failed"
            /\ inst[i].error.kind = "ChannelNotFound"
            /\ Split(inst[i].error.version)[1] = InputParts(i)[1]
            /\ inst[i].error.url = DotNetCoreIndexUrl
            /\ inst[i].dotnetVersion.value = <<>>
            /\ ~HasStep(i, "build")
            /\ inst[i].spawned = 0
            /\ inst[i].result = <<>>

C4_Witness ==
    \E i \in Installers :
        /\ IsBareMajor(i)
        /\ inst[i].response.status = "ok"
        /\ Matches(i) = {}
        /\ Len(inst[i].response.index) = MaxIndexLen

\* C5: a constructor that finds DOTNET_INSTALL_DIR set leaves it alone, and
\* the path selected is the value found.
C5_OverrideKept ==
    [][\A i \in Installers :
          (installDir # NoDir /\ inst[i].pc = "new"
                              /\ inst'[i].pc = "constructed") =>
              /\ installDir' = installDir
              /\ InstallDirPath(installDir', platform) = installDir]_vars

\* The argument list holds the quality option followed by the quality.
HasQualityArgument(i) ==
    \E k \in 1..(Len(inst[i].args) - 1) :
        /\ inst[i].args[k] \in {Word("--quality"), Word("-Quality")}
        /\ inst[i].args[k + 1] = Word(inst[i].quality)

MentionsQuality(i) ==
    \E k \in 1..Len(inst[i].args) :
        inst[i].args[k] \in {Word("--quality"), Word("-Quality"),
                             Word(inst[i].quality)}

\* C6: a non-zero exit code makes installDotnet throw InstallationFailed
\* with that code and the captured stderr; nothing is returned and the sdk
\* directory is not scanned.
C6_InstallationFailed ==
    \A i \in Installers :
        (inst[i].spawned > 0 /\ inst[i].exitCode # 0) =>
            /\ inst[i].pc = "failed"
            /\ inst[i].error = InstallationFailed(inst[i].exitCode,
                                                  inst[i].stderr)
            /\ inst[i].error.kind = "InstallationFailed"
            /\ inst[i].error.exitCode # 0
            /\ inst[i].result = <<>>
            /\ inst[i].scanned = NoDir
            /\ ~HasStep(i, "scan")

C6_Witness ==
    \E i \in Installers :
        /\ inst[i].exitCode = 2
        /\ inst[i].stderr = "boom"
        /\ inst[i].pc = "failed"

\* C7: installDotnet returns only when a listed name satisfies the
\* directive's value; otherwise it fails with VersionNotFound.
C7_VersionNotFound ==
    \A i \in Installers :
        (inst[i].pc \in {"done", "failed"} /\ HasStep(i, "scan")
            /\ \A name \in inst[i].listing :
                  ~SemverSatisfies(name, inst[i].dotnetVersion.value)) =>
            /\ inst[i].pc = "failed"
            /\ inst[i].error.kind \in {"VersionNotFound", "ENOENT"}

\* C8: with a quality requested, the quality option and the quality are
\* among the arguments exactly when the directive supports quality; when it
\* does not, a warning is written, the arguments do not mention the quality,
\* and the call goes on to start the installer.
C8_QualityArgument ==
    \A i \in Installers :
        (inst[i].quality # "" /\ HasStep(i, "build")) =>
            /\ HasQualityArgument(i) <=> inst[i].dotnetVersion.qualityFlag
            /\ ~inst[i].dotnetVersion.qualityFlag =>
                  /\ inst[i].warned
                  /\ ~MentionsQuality(i)
                  /\ inst[i].pc = "ready" => inst[i].error = NoError
                  /\ inst[i].pc = "failed" => inst[i].spawned = 1
            /\ inst[i].dotnetVersion.qualityFlag => ~inst[i].warned

C8_Witness ==
    \E i \in Installers :
        /\ inst[i].quality # ""
        /\ ~inst[i].dotnetVersion.qualityFlag
        /\ inst[i].warned
        /\ inst[i].spawned = 1

IsPrefix(s, t) == Len(s) <= Len(t) /\ s = SubSeq(t, 1, Len(s))

\* C9 as stated: the steps of a run start in the order resolve, select
\* directory, build arguments, run installer, scan.
C9_ResolveThenSelect ==
    \A i \in Installers :
        IsPrefix(inst[i].steps, <<"resolve", "select", "build", "run", "scan">>)

\* C9 amended: the directory is selected first, by the constructor; then
\* the steps start in the order resolve, build arguments, run installer,
\* scan, and a step that fails is the last one.
C9_SelectThenResolve ==
    \A i \in Installers :
        /\ IsPrefix(inst[i].steps, <<"select", "resolve", "build", "run", "scan">>)
        /\ (inst[i].pc # "new") = HasStep(i, "select")
        /\ HasStep(i, "select") => installDir # NoDir
        /\ (HasStep(i, "resolve") /\ ~SemverValidRange(Trim(inst[i].version)))
              => inst[i].pc = "failed" /\ ~HasStep(i, "build")
        /\ (inst[i].response.status # "none"
              /\ (inst[i].response.status # "ok" \/ Matches(i) = {}))
              => inst[i].pc = "failed" /\ ~HasStep(i, "build")
        /\ (inst[i].spawned > 0 /\ inst[i].exitCode # 0)
              => inst[i].pc = "failed" /\ ~HasStep(i, "scan")
        /\ inst[i].error # NoError => inst[i].pc = "failed"
        /\ inst[i].result # <<>> => inst[i].steps
                                    = <<"select", "resolve", "build", "run", "scan">>

C9_Witness ==
    \E i \in Installers :
        /\ inst[i].pc = "done"
        /\ inst[i].result \notin {<<>>, Null}
        /\ inst[i].lookups = 1

\* The directory derived from the version of installer i: the platform's
\* root and the major component of the version.
OwnDirectory(i) == InstallDirValue(inst[i].version, platform)

\* C10: the directory an installer hands to its subprocess, scans and
\* exports is the one derived from its own version.
C10_OwnDirectory ==
    \A i \in Installers :
        /\ inst[i].spawned > 0 => inst[i].childDir = OwnDirectory(i)
        /\ inst[i].scanned # NoDir => inst[i].scanned = OwnDirectory(i)
        /\ inst[i].exported # NoDir => inst[i].exported = OwnDirectory(i)

====
